---- MODULE Spec2Model ----
(***************************************************************************)
(* Half-edge topology store (src/src/topol.rs), its circulators            *)
(* (src/src/iterator.rs) and the property container (src/src/property.rs). *)
(* Identifiers are the source's: vertices, halfedges (edge = h >> 1,       *)
(* side = h & 1), faces, all 0-based.  Option::None is written NONE.       *)
(***************************************************************************)
EXTENDS Integers, Sequences, FiniteSets, TLC

\* ---------------------------------------------------------------- bounds
MaxVerts == 4
MaxFaces == 3
MaxProps == 2
\* free add_face calls after the fan opening
FanExtra == 1
\* vertices added by the client that reads and writes property slots
MaxSlots == 4
\* free add_face calls after the patch opening
PatchExtra == 1
\* vertices added through the geometry wrapper
MaxPoints == 7

\* ------------------------------------------------------------- constants
NONE == -1
\* value a lazy circulator walk is given when it never returns to its anchor
DIVERGED == NONE - 1

\* floops: the loop of every successful add_face call, in call order (history)
VARIABLES vertices, edges, faces, vprops, fprops, heap, last, floops
vars == <<vertices, edges, faces, vprops, fprops, heap, last, floops>>

\* 0-based access to a TLA+ sequence
At(s, i) == s[i + 1]
SetAt(s, i, x) == [s EXCEPT ![i + 1] = x]

\* ------------------------------------------------------ topology store
\* struct Topology as one value; heap holds the Rc<RefCell<Vec<T>>> cells the
\* weak references of the two containers point into
Topology(vs, es, fs, vp, fp, hp) ==
    [vertices |-> vs, edges |-> es, faces |-> fs, vprops |-> vp, fprops |-> fp,
     heap |-> hp]

num_vertices(T) == Len(T.vertices)
num_edges(T) == Len(T.edges)
num_halfedges(T) == num_edges(T) * 2
num_faces(T) == Len(T.faces)

vertex_iter(T) == 0 .. (num_vertices(T) - 1)
halfedge_iter(T) == 0 .. (num_halfedges(T) - 1)
edge_iter(T) == 0 .. (num_edges(T) - 1)
face_iter(T) == 0 .. (num_faces(T) - 1)

\* &self.edges[(h >> 1)].halfedges[(h & 1)]
halfedge(T, h) == At(At(T.edges, h \div 2).halfedges, h % 2)

\* the place the reference returned by Topology::halfedge designates:
\* &self.edges[(h >> 1)].halfedges[(h & 1)]; indexing past the end panics
halfedge_place(T, h) ==
    LET e == h \div 2
    IN  IF e < Len(T.edges) THEN [kind |-> "Ok", val |-> <<e, h % 2>>]
        ELSE [kind |-> "Panic", val |-> <<e, h % 2>>]

\* the same for Mesh::halfedge: &self.edges[(h << 1)].halfedges[(h & 1)];
\* the identifiers of a store are far below 2^31, where the u32 shift loses
\* no bit
mesh_halfedge_place(T, h) ==
    LET e == h * 2
    IN  IF e < Len(T.edges) THEN [kind |-> "Ok", val |-> <<e, h % 2>>]
        ELSE [kind |-> "Panic", val |-> <<e, h % 2>>]

\* h ^ 1
opposite_halfedge(h) == IF h % 2 = 0 THEN h + 1 ELSE h - 1

to_vertex(T, h) == halfedge(T, h).vertex
from_vertex(T, h) == halfedge(T, opposite_halfedge(h)).vertex
prev_halfedge(T, h) == halfedge(T, h).prev
next_halfedge(T, h) == halfedge(T, h).next
halfedge_face(T, h) == halfedge(T, h).face
face_halfedge(T, f) == At(T.faces, f).halfedge
vertex_halfedge(T, v) == At(T.vertices, v).halfedge

is_boundary_halfedge(T, h) == halfedge(T, h).face = NONE

is_boundary_edge(T, e) ==
    LET h == e * 2
    IN  is_boundary_halfedge(T, h) \/ is_boundary_halfedge(T, opposite_halfedge(h))

\* mutant: the test looks at the wrong side of the anchor's edge
is_boundary_vertex_opposite(T, v) ==
    LET h == vertex_halfedge(T, v)
    IN  IF h = NONE THEN TRUE ELSE is_boundary_halfedge(T, opposite_halfedge(h))

is_boundary_vertex(T, v) ==
    IF At(T.vertices, v).halfedge # NONE
    THEN is_boundary_halfedge(T, At(T.vertices, v).halfedge)
    ELSE TRUE

cw_rotated_halfedge(T, h) == halfedge(T, opposite_halfedge(h)).next
ccw_rotated_halfedge(T, h) == opposite_halfedge(halfedge(T, h).prev)

set_vertex_halfedge(T, v, h) ==
    [T EXCEPT !.vertices = SetAt(T.vertices, v, [halfedge |-> h])]

\* write one field of halfedge h
halfedge_mut(T, h, fld, x) ==
    [T EXCEPT !.edges[(h \div 2) + 1].halfedges[(h % 2) + 1][fld] = x]

\* mutant: the back link is forgotten
set_next_only(T, hprev, hnext) == halfedge_mut(T, hprev, "next", hnext)

\* mutant: the two arguments are taken in the wrong order
set_next_swapped(T, hprev, hnext) ==
    halfedge_mut(halfedge_mut(T, hnext, "next", hprev), hprev, "prev", hnext)

\* mutant: the back link is written on hprev itself
set_next_prev_on_self(T, hprev, hnext) ==
    halfedge_mut(halfedge_mut(T, hprev, "next", hnext), hprev, "prev", hnext)

set_next_halfedge(T, hprev, hnext) ==
    halfedge_mut(halfedge_mut(T, hprev, "next", hnext), hnext, "prev", hprev)

\* ---------------------------------------------------------- circulators
\* OutgoingHalfedgeIter<true>: the items from `current` on, as a sequence.
\* A walk of more steps than there are halfedges has entered a cycle that
\* does not contain the anchor and never ends: it is reported as <<DIVERGED>>.
\* mutant: opposite and prev are applied in the wrong order
RECURSIVE OutgoingCcwPrevOpposite(_, _, _, _)
OutgoingCcwPrevOpposite(T, hstart, current, fuel) ==
    LET next == prev_halfedge(T, opposite_halfedge(current))
    IN  IF next = hstart THEN <<current>>
        ELSE IF fuel = 0 THEN <<DIVERGED>>
        ELSE <<current>> \o OutgoingCcwPrevOpposite(T, hstart, next, fuel - 1)

RECURSIVE OutgoingCcw(_, _, _, _)
OutgoingCcw(T, hstart, current, fuel) ==
    LET next == opposite_halfedge(prev_halfedge(T, current))
    IN  IF next = hstart THEN <<current>>
        ELSE IF fuel = 0 THEN <<DIVERGED>>
        ELSE <<current>> \o OutgoingCcw(T, hstart, next, fuel - 1)

\* mutant: next and opposite are applied in the wrong order
RECURSIVE OutgoingCwOppositeNext(_, _, _, _)
OutgoingCwOppositeNext(T, hstart, current, fuel) ==
    LET next == opposite_halfedge(next_halfedge(T, current))
    IN  IF next = hstart THEN <<current>>
        ELSE IF fuel = 0 THEN <<DIVERGED>>
        ELSE <<current>> \o OutgoingCwOppositeNext(T, hstart, next, fuel - 1)

RECURSIVE OutgoingCw(_, _, _, _)
OutgoingCw(T, hstart, current, fuel) ==
    LET next == next_halfedge(T, opposite_halfedge(current))
    IN  IF next = hstart THEN <<current>>
        ELSE IF fuel = 0 THEN <<DIVERGED>>
        ELSE <<current>> \o OutgoingCw(T, hstart, next, fuel - 1)

voh_ccw_iter(T, v) ==
    LET h == vertex_halfedge(T, v)
    IN  IF h = NONE THEN <<>> ELSE OutgoingCcw(T, h, h, num_halfedges(T))

voh_cw_iter(T, v) ==
    LET h == vertex_halfedge(T, v)
    IN  IF h = NONE THEN <<>> ELSE OutgoingCw(T, h, h, num_halfedges(T))

RECURSIVE FaceCcw(_, _, _, _)
FaceCcw(T, hstart, current, fuel) ==
    LET next == next_halfedge(T, current)
    IN  IF next = hstart THEN <<current>>
        ELSE IF fuel = 0 THEN <<DIVERGED>>
        ELSE <<current>> \o FaceCcw(T, hstart, next, fuel - 1)

RECURSIVE FaceCw(_, _, _, _)
FaceCw(T, hstart, current, fuel) ==
    LET next == prev_halfedge(T, current)
    IN  IF next = hstart THEN <<current>>
        ELSE IF fuel = 0 THEN <<DIVERGED>>
        ELSE <<current>> \o FaceCw(T, hstart, next, fuel - 1)

fh_ccw_iter(T, f) ==
    FaceCcw(T, face_halfedge(T, f), face_halfedge(T, f), num_halfedges(T))

fh_cw_iter(T, f) ==
    FaceCw(T, face_halfedge(T, f), face_halfedge(T, f), num_halfedges(T))

\* Iterator::map(|h| to_vertex(h)) over a walk; a walk that never ends stays
\* one that never ends
MapToVertex(T, walk) ==
    [k \in 1 .. Len(walk) |->
        IF walk[k] = DIVERGED THEN DIVERGED ELSE to_vertex(T, walk[k])]

\* Iterator::filter_map(|h| halfedge_face(h)) over a walk
RECURSIVE FilterMapFace(_, _, _)
FilterMapFace(T, walk, k) ==
    IF k > Len(walk) THEN <<>>
    ELSE IF walk[k] = DIVERGED THEN <<DIVERGED>>
    ELSE IF halfedge_face(T, walk[k]) = NONE THEN FilterMapFace(T, walk, k + 1)
    ELSE <<halfedge_face(T, walk[k])>> \o FilterMapFace(T, walk, k + 1)

vf_ccw_iter(T, v) == FilterMapFace(T, voh_ccw_iter(T, v), 1)
vf_cw_iter(T, v) == FilterMapFace(T, voh_cw_iter(T, v), 1)
\* mutant: the clockwise walk is mapped
vv_ccw_clockwise(T, v) == MapToVertex(T, voh_cw_iter(T, v))

vv_ccw_iter(T, v) == MapToVertex(T, voh_ccw_iter(T, v))
vv_cw_iter(T, v) == MapToVertex(T, voh_cw_iter(T, v))

\* mutant: the source vertex of every halfedge is reported
fv_ccw_from(T, f) ==
    LET walk == fh_ccw_iter(T, f)
    IN  [k \in 1 .. Len(walk) |->
            IF walk[k] = DIVERGED THEN DIVERGED ELSE from_vertex(T, walk[k])]

fv_ccw_iter(T, f) == MapToVertex(T, fh_ccw_iter(T, f))
fv_cw_iter(T, f) == MapToVertex(T, fh_cw_iter(T, f))

\* Iterator::find over OutgoingHalfedgeIter<true>, as lazy as the source: the
\* walk stops at the first halfedge for which `hit` holds.  hit = "to" looks
\* for to_vertex(h) = arg, hit = "boundary" for a boundary halfedge.
\* mutant: the destination test compares the source vertex
HitFrom(T, h, hit, arg) ==
    IF hit = "to" THEN from_vertex(T, h) = arg ELSE is_boundary_halfedge(T, h)

Hit(T, h, hit, arg) ==
    IF hit = "to" THEN to_vertex(T, h) = arg ELSE is_boundary_halfedge(T, h)

RECURSIVE FindCcw(_, _, _, _, _, _)
FindCcw(T, hstart, current, hit, arg, fuel) ==
    IF Hit(T, current, hit, arg) THEN current
    ELSE LET next == opposite_halfedge(prev_halfedge(T, current))
         IN  IF next = hstart THEN NONE
             ELSE IF fuel = 0 THEN DIVERGED
             ELSE FindCcw(T, hstart, next, hit, arg, fuel - 1)

\* mutant: only the anchor is looked at, the vertex is not circulated
find_halfedge_anchor_only(T, from, to) ==
    LET h == vertex_halfedge(T, from)
    IN  IF h # NONE /\ to_vertex(T, h) = to THEN h ELSE NONE

\* mutant: the search never finds a halfedge
find_halfedge_never(T, from, to) == NONE

find_halfedge(T, from, to) ==
    LET h == vertex_halfedge(T, from)
    IN  IF h = NONE THEN NONE ELSE FindCcw(T, h, h, "to", to, num_halfedges(T))

\* ------------------------------------------------- property container
\* T::default() of the stored plain value
DefaultValue == 0

\* Result values: kind "Ok" carries the returned index, an Err its payload
Ok(x) == [kind |-> "Ok", val |-> x]
Err(k, x) == [kind |-> k, val |-> x]

\* PropertyRef::upgrade: the weak reference is live while the client holds
\* the Property handle
upgrade(hp, r) == At(hp, r).alive

\* mutant: the default value is put in front of the stored values
push_front(hp, r) ==
    SetAt(hp, r, [At(hp, r) EXCEPT !.data = <<DefaultValue>> \o @])

\* PropertyRef::push on slot r
push(hp, r) == SetAt(hp, r, [At(hp, r) EXCEPT !.data = Append(@, DefaultValue)])

\* PropertyContainer::push_value: `prop.push()?` over the slots in order,
\* returning at the first failure with the earlier slots already pushed
RECURSIVE push_value(_, _, _)
push_value(props, hp, i) ==
    IF i = Len(props) THEN [ret |-> Ok(0), heap |-> hp]
    ELSE IF ~upgrade(hp, At(props, i))
         THEN [ret |-> Err("PropertyDoesNotExist", NONE), heap |-> hp]
         ELSE push_value(props, push(hp, At(props, i)), i + 1)

\* PropertyRef::len / PropertyContainer::len; the assert_eq! is reported
\* as kind "Panic"
RECURSIVE container_len(_, _, _, _)
container_len(props, hp, i, first) ==
    IF i = Len(props) THEN Ok(IF first = NONE THEN 0 ELSE first)
    ELSE IF ~upgrade(hp, At(props, i)) THEN Err("PropertyDoesNotExist", NONE)
    ELSE LET n == Len(At(hp, At(props, i)).data)
         IN  IF first # NONE /\ first # n THEN Err("Panic", NONE)
             ELSE container_len(props, hp, i + 1, IF first = NONE THEN n ELSE first)

\* Property::new: an empty Vec behind a fresh Rc, and a weak reference to it
\* pushed onto the container
property_new(T) ==
    [T EXCEPT !.heap = Append(@, [alive |-> TRUE, data |-> <<>>]),
              !.vprops = Append(@, Len(T.heap))]

\* Property::get on the client's handle to heap cell p: Vec::get(i) with
\* ok_or(OutOfBoundsAccess).  No borrow outlives a call and Rc is not Send,
\* so try_borrow never fails.
property_get(hp, p, i) ==
    IF i < Len(At(hp, p).data) THEN Ok(At(At(hp, p).data, i))
    ELSE Err("OutOfBoundsAccess", NONE)

\* Property::set: `buf[i as usize] = val`; indexing a Vec past its end panics,
\* the RefMut is released by the unwinding and the array is as it was
property_set(hp, p, i, val) ==
    IF i < Len(At(hp, p).data)
    THEN [heap |-> SetAt(hp, p, [At(hp, p) EXCEPT !.data = SetAt(@, i, val)]),
          ret |-> Ok(0)]
    ELSE [heap |-> hp, ret |-> Err("Panic", i)]

\* ------------------------------------------------------------ mutation
add_vertex(T) ==
    LET vi == Len(T.vertices)
        T1 == [T EXCEPT !.vertices = Append(@, [halfedge |-> NONE])]
        pv == push_value(T1.vprops, T1.heap, 0)
        T2 == [T1 EXCEPT !.heap = pv.heap]
    IN  IF pv.ret.kind # "Ok" THEN [T |-> T2, ret |-> pv.ret]
        ELSE [T |-> T2, ret |-> Ok(vi)]

new_face(T, h) ==
    LET fi == Len(T.faces)
        pv == push_value(T.fprops, T.heap, 0)
        T1 == [T EXCEPT !.heap = pv.heap]
    IN  IF pv.ret.kind # "Ok" THEN [T |-> T1, ret |-> pv.ret]
        ELSE [T |-> [T1 EXCEPT !.faces = Append(@, [halfedge |-> h])], ret |-> Ok(fi)]

\* mutant: the anchor is never moved
adjust_never(T, v) == [T |-> T, ret |-> Ok(0)]

\* mutant: the boundary halfedge found is stored on the vertex it points to
adjust_at_head(T, v) ==
    LET h0 == vertex_halfedge(T, v)
        h == IF h0 = NONE THEN NONE
             ELSE FindCcw(T, h0, h0, "boundary", NONE, num_halfedges(T))
    IN  IF h = DIVERGED THEN [T |-> T, ret |-> Err("Hang", v)]
        ELSE IF h # NONE
        THEN [T |-> set_vertex_halfedge(T, to_vertex(T, h), h), ret |-> Ok(0)]
        ELSE [T |-> T, ret |-> Ok(0)]

adjust_outgoing_halfedge(T, v) ==
    LET h0 == vertex_halfedge(T, v)
        h == IF h0 = NONE THEN NONE
             ELSE FindCcw(T, h0, h0, "boundary", NONE, num_halfedges(T))
    IN  IF h = DIVERGED THEN [T |-> T, ret |-> Err("Hang", v)]
        ELSE IF h # NONE THEN [T |-> set_vertex_halfedge(T, v, h), ret |-> Ok(0)]
        ELSE [T |-> T, ret |-> Ok(0)]

\* mutant: the two halfedges get each other's destination
new_edge_swapped(T, from, to, prev, next, opp_prev, opp_next) ==
    [T EXCEPT !.edges = Append(@, [halfedges |-> <<
        [face |-> NONE, vertex |-> from, next |-> next, prev |-> prev],
        [face |-> NONE, vertex |-> to, next |-> opp_next, prev |-> opp_prev] >>])]

new_edge(T, from, to, prev, next, opp_prev, opp_next) ==
    [T EXCEPT !.edges = Append(@, [halfedges |-> <<
        [face |-> NONE, vertex |-> to, next |-> next, prev |-> prev],
        [face |-> NONE, vertex |-> from, next |-> opp_next, prev |-> opp_prev] >>])]

\* ------------------------------------------------------------ add_face
\* TentativeEdge::Old(h) and TentativeEdge::New { index, from, to, .. }
Old(h) ==
    [old |-> TRUE, index |-> h, from |-> NONE, to |-> NONE, prev |-> NONE,
     next |-> NONE, opp_prev |-> NONE, opp_next |-> NONE]
\* mutant: the planned edge runs the other way
NewReversed(index, from, to) ==
    [old |-> FALSE, index |-> index, from |-> to, to |-> from, prev |-> NONE,
     next |-> NONE, opp_prev |-> NONE, opp_next |-> NONE]

New(index, from, to) ==
    [old |-> FALSE, index |-> index, from |-> from, to |-> to, prev |-> NONE,
     next |-> NONE, opp_prev |-> NONE, opp_next |-> NONE]

\* mutant: a halfedge that already carries a face is accepted
RECURSIVE ValidateAnyEdge(_, _, _, _)
ValidateAnyEdge(T, verts, i, loop_halfedges) ==
    IF i = Len(verts) THEN [ret |-> Ok(0), loop_halfedges |-> loop_halfedges]
    ELSE IF ~is_boundary_vertex(T, At(verts, i))
    THEN [ret |-> Err("ComplexVertex", At(verts, i)), loop_halfedges |-> loop_halfedges]
    ELSE LET h == find_halfedge(T, At(verts, i), At(verts, (i + 1) % Len(verts)))
         IN  ValidateAnyEdge(T, verts, i + 1, Append(loop_halfedges, h))

\* Phase 1 (lines 265-278), corner i onwards: the first topological error, or
\* the halfedge looked up for every corner
RECURSIVE Validate(_, _, _, _)
Validate(T, verts, i, loop_halfedges) ==
    IF i = Len(verts) THEN [ret |-> Ok(0), loop_halfedges |-> loop_halfedges]
    ELSE IF ~is_boundary_vertex(T, At(verts, i))
    THEN [ret |-> Err("ComplexVertex", At(verts, i)), loop_halfedges |-> loop_halfedges]
    ELSE LET h == find_halfedge(T, At(verts, i), At(verts, (i + 1) % Len(verts)))
         IN  IF h = DIVERGED
             THEN [ret |-> Err("Hang", At(verts, i)), loop_halfedges |-> loop_halfedges]
             ELSE IF h # NONE /\ ~is_boundary_halfedge(T, h)
             THEN [ret |-> Err("ComplexEdge", h), loop_halfedges |-> loop_halfedges]
             ELSE Validate(T, verts, i + 1, Append(loop_halfedges, h))

\* lines 290-299: out <- opposite(next(out)) until out is a boundary halfedge
RECURSIVE BoundPrev(_, _, _)
BoundPrev(T, out, fuel) ==
    LET o == opposite_halfedge(next_halfedge(T, out))
    IN  IF is_boundary_halfedge(T, o) THEN o
        ELSE IF fuel = 0 THEN DIVERGED
        ELSE BoundPrev(T, o, fuel - 1)

\* mutant: only the first corner whose two old halfedges are not linked is
\* examined
RECURSIVE PlanRelinksFirstOnly(_, _, _, _, _)
PlanRelinksFirstOnly(T, verts, lh, i, next_cache) ==
    IF i = Len(verts) \/ next_cache # <<>>
    THEN [ret |-> Ok(0), next_cache |-> next_cache]
    ELSE LET prev == At(lh, i)
             next == At(lh, (i + 1) % Len(verts))
         IN  IF prev # NONE /\ next # NONE /\ next_halfedge(T, prev) # next
             THEN LET boundprev == BoundPrev(T, opposite_halfedge(next), num_halfedges(T))
                  IN  IF boundprev = prev
                      THEN [ret |-> Err("PatchRelinkingFailed", NONE),
                            next_cache |-> next_cache]
                      ELSE PlanRelinksFirstOnly(T, verts, lh, i + 1, next_cache \o <<
                               <<boundprev, next_halfedge(T, prev)>>,
                               <<prev_halfedge(T, next), next_halfedge(T, boundprev)>>,
                               <<prev, next>> >>)
             ELSE PlanRelinksFirstOnly(T, verts, lh, i + 1, next_cache)

\* Phase 2 (lines 280-317), corner i onwards: queue the three rewrites of every
\* corner whose two old halfedges are not linked, or fail
RECURSIVE PlanRelinks(_, _, _, _, _)
PlanRelinks(T, verts, lh, i, next_cache) ==
    IF i = Len(verts) THEN [ret |-> Ok(0), next_cache |-> next_cache]
    ELSE LET prev == At(lh, i)
             next == At(lh, (i + 1) % Len(verts))
         IN  IF prev # NONE /\ next # NONE /\ next_halfedge(T, prev) # next
             THEN LET boundprev == BoundPrev(T, opposite_halfedge(next), num_halfedges(T))
                  IN  IF boundprev = DIVERGED
                      THEN [ret |-> Err("Hang", next), next_cache |-> next_cache]
                      ELSE IF boundprev = prev
                      THEN [ret |-> Err("PatchRelinkingFailed", NONE),
                            next_cache |-> next_cache]
                      ELSE IF ~is_boundary_halfedge(T, next_halfedge(T, boundprev))
                      THEN [ret |-> Err("Panic", boundprev), next_cache |-> next_cache]
                      ELSE PlanRelinks(T, verts, lh, i + 1, next_cache \o <<
                               <<boundprev, next_halfedge(T, prev)>>,
                               <<prev_halfedge(T, next), next_halfedge(T, boundprev)>>,
                               <<prev, next>> >>)
             ELSE PlanRelinks(T, verts, lh, i + 1, next_cache)

\* lines 320-341: one tentative edge per corner, new ones numbered from the
\* current edge count
\* mutant: the planned halfedge index is the edge index, not shifted
RECURSIVE TentativeUnshifted(_, _, _, _, _)
TentativeUnshifted(T, verts, lh, i, ei) ==
    IF i = Len(verts) THEN <<>>
    ELSE IF At(lh, i) # NONE
         THEN <<Old(At(lh, i))>> \o TentativeUnshifted(T, verts, lh, i + 1, ei)
         ELSE <<New(ei, At(verts, i), At(verts, (i + 1) % Len(verts)))>>
              \o TentativeUnshifted(T, verts, lh, i + 1, ei + 1)

RECURSIVE Tentative(_, _, _, _, _)
Tentative(T, verts, lh, i, ei) ==
    IF i = Len(verts) THEN <<>>
    ELSE IF At(lh, i) # NONE
         THEN <<Old(At(lh, i))>> \o Tentative(T, verts, lh, i + 1, ei)
         ELSE <<New(ei * 2, At(verts, i), At(verts, (i + 1) % Len(verts)))>>
              \o Tentative(T, verts, lh, i + 1, ei + 1)

\* lines 342-429, one iteration: corner (i, j) at vertex verts[j].  P carries
\* the store (vertex anchors are written here) and the scratch cache.
PlanCorner(P, verts, i) ==
    LET j == (i + 1) % Len(verts)
        e0 == At(P.tentative, i)
        e1 == At(P.tentative, j)
        v == At(verts, j)
    IN  IF e0.old /\ e1.old
        THEN [P EXCEPT !.needs_adjust =
                           SetAt(@, j, vertex_halfedge(P.T, v) = e1.index)]
        ELSE IF ~e0.old /\ e1.old
        THEN LET innernext == e1.index
                 innerprev == e0.index
                 outernext == opposite_halfedge(innerprev)
                 boundprev == prev_halfedge(P.T, innernext)
             IN  [P EXCEPT !.next_cache = @ \o << <<boundprev, outernext>>,
                                                   <<innerprev, innernext>> >>,
                           !.tentative = SetAt(@, i, [e0 EXCEPT !.opp_prev = boundprev,
                                                                !.next = innernext]),
                           !.T = set_vertex_halfedge(@, v, outernext)]
        ELSE IF e0.old /\ ~e1.old
        THEN LET innerprev == e0.index
                 innernext == e1.index
                 outerprev == opposite_halfedge(innernext)
                 boundnext == next_halfedge(P.T, innerprev)
             IN  [P EXCEPT !.next_cache = @ \o << <<outerprev, boundnext>>,
                                                   <<innerprev, innernext>> >>,
                           !.tentative = SetAt(@, j, [e1 EXCEPT !.opp_next = boundnext,
                                                                !.prev = innerprev]),
                           !.T = set_vertex_halfedge(@, v, boundnext)]
        ELSE LET innerprev == e0.index
                 innernext == e1.index
                 outernext == opposite_halfedge(innerprev)
                 outerprev == opposite_halfedge(innernext)
                 boundnext == vertex_halfedge(P.T, v)
             IN  IF boundnext # NONE
                 THEN LET boundprev == prev_halfedge(P.T, boundnext)
                      IN  [P EXCEPT
                            !.next_cache = @ \o << <<boundprev, outernext>>,
                                                   <<outerprev, boundnext>> >>,
                            !.tentative = SetAt(
                                SetAt(@, i, [e0 EXCEPT !.next = innernext,
                                                       !.opp_prev = boundprev]),
                                j, [e1 EXCEPT !.prev = innerprev,
                                                    !.opp_next = boundnext])]
                 ELSE [P EXCEPT
                            !.T = set_vertex_halfedge(@, v, outernext),
                            !.tentative = SetAt(
                                SetAt(@, i, [e0 EXCEPT !.next = innernext,
                                                       !.opp_prev = outerprev]),
                                j, [e1 EXCEPT !.prev = innerprev,
                                                    !.opp_next = outernext])]

RECURSIVE PlanCorners(_, _, _)
PlanCorners(P, verts, i) ==
    IF i = Len(verts) THEN P ELSE PlanCorners(PlanCorner(P, verts, i), verts, i + 1)

\* lines 433-458: every New corner becomes a real edge; the expect() of an
\* unfilled link and the assert_eq! on the planned index are kind "Panic"
RECURSIVE CreateEdges(_, _, _, _)
CreateEdges(T, tentative, i, halfedges) ==
    IF i = Len(tentative) THEN [T |-> T, ret |-> Ok(0), halfedges |-> halfedges]
    ELSE LET t == At(tentative, i)
         IN  IF t.old THEN CreateEdges(T, tentative, i + 1, Append(halfedges, t.index))
             ELSE IF NONE \in {t.prev, t.next, t.opp_prev, t.opp_next}
             THEN [T |-> T, ret |-> Err("Panic", i), halfedges |-> halfedges]
             ELSE LET ei == Len(T.edges)
                      T1 == new_edge(T, t.from, t.to, t.prev, t.next,
                                     t.opp_prev, t.opp_next)
                  IN  IF t.index \div 2 # ei
                      THEN [T |-> T1, ret |-> Err("Panic", i), halfedges |-> halfedges]
                      ELSE CreateEdges(T1, tentative, i + 1, Append(halfedges, t.index))

\* mutant: the last halfedge of the loop is not given the face
RECURSIVE SetFacesButLast(_, _, _, _)
SetFacesButLast(T, halfedges, i, fnew) ==
    IF i >= Len(halfedges) - 1 THEN T
    ELSE SetFacesButLast(halfedge_mut(T, At(halfedges, i), "face", fnew),
                         halfedges, i + 1, fnew)

\* mutant: both halfedges of every loop edge are given the face
RECURSIVE SetFacesBothSides(_, _, _, _)
SetFacesBothSides(T, halfedges, i, fnew) ==
    IF i = Len(halfedges) THEN T
    ELSE SetFacesBothSides(
             halfedge_mut(halfedge_mut(T, At(halfedges, i), "face", fnew),
                          opposite_halfedge(At(halfedges, i)), "face", fnew),
             halfedges, i + 1, fnew)

\* mutant: the face is given to the opposite of every loop halfedge
RECURSIVE SetFacesOpposite(_, _, _, _)
SetFacesOpposite(T, halfedges, i, fnew) ==
    IF i = Len(halfedges) THEN T
    ELSE SetFacesOpposite(
             halfedge_mut(T, opposite_halfedge(At(halfedges, i)), "face", fnew),
             halfedges, i + 1, fnew)

\* lines 464-466
RECURSIVE SetFaces(_, _, _, _)
SetFaces(T, halfedges, i, fnew) ==
    IF i = Len(halfedges) THEN T
    ELSE SetFaces(halfedge_mut(T, At(halfedges, i), "face", fnew), halfedges, i + 1, fnew)

\* lines 468-470
RECURSIVE ApplyNextCache(_, _, _)
ApplyNextCache(T, next_cache, i) ==
    IF i = Len(next_cache) THEN T
    ELSE ApplyNextCache(set_next_halfedge(T, At(next_cache, i)[1], At(next_cache, i)[2]),
                        next_cache, i + 1)

\* mutant: a flagged vertex is rescanned only if it is a boundary vertex
RECURSIVE AdjustAllBoundaryOnly(_, _, _, _)
AdjustAllBoundaryOnly(T, verts, needs_adjust, i) ==
    IF i = Len(verts) THEN [T |-> T, ret |-> Ok(0)]
    ELSE IF At(needs_adjust, i) /\ is_boundary_vertex(T, At(verts, i))
         THEN LET a == adjust_outgoing_halfedge(T, At(verts, i))
              IN  IF a.ret.kind # "Ok" THEN a
                  ELSE AdjustAllBoundaryOnly(a.T, verts, needs_adjust, i + 1)
         ELSE AdjustAllBoundaryOnly(T, verts, needs_adjust, i + 1)

\* lines 472-476
RECURSIVE AdjustAll(_, _, _, _)
AdjustAll(T, verts, needs_adjust, i) ==
    IF i = Len(verts) THEN [T |-> T, ret |-> Ok(0)]
    ELSE IF At(needs_adjust, i)
         THEN LET a == adjust_outgoing_halfedge(T, At(verts, i))
              IN  IF a.ret.kind # "Ok" THEN a
                  ELSE AdjustAll(a.T, verts, needs_adjust, i + 1)
         ELSE AdjustAll(T, verts, needs_adjust, i + 1)

\* what a call did besides its result: how many corners Phase 2 relinked and
\* which loop vertices were flagged needs_adjust
Note(n, adj) == [relinks |-> n, adjusted |-> adj]
NoNote == Note(0, {})

\* Phases 3 and 4 (lines 318-477), entered once nothing can fail any more
Commit(T, verts, lh, next_cache) ==
    LET P == PlanCorners([T |-> T,
                          tentative |-> Tentative(T, verts, lh, 0, Len(T.edges)),
                          next_cache |-> next_cache,
                          needs_adjust |-> [k \in 1 .. Len(verts) |-> FALSE]],
                         verts, 0)
        ce == CreateEdges(P.T, P.tentative, 0, <<>>)
        note == Note(Len(next_cache) \div 3,
                     { verts[k] : k \in { i \in 1 .. Len(verts) : P.needs_adjust[i] } })
    IN  IF ce.ret.kind # "Ok" THEN [T |-> ce.T, ret |-> ce.ret, note |-> note]
        ELSE LET nf == new_face(ce.T, At(P.tentative, Len(P.tentative) - 1).index)
             IN  IF nf.ret.kind # "Ok" THEN [T |-> nf.T, ret |-> nf.ret, note |-> note]
                 ELSE LET T3 == SetFaces(nf.T, ce.halfedges, 0, nf.ret.val)
                          T4 == ApplyNextCache(T3, P.next_cache, 0)
                          ad == AdjustAll(T4, verts, P.needs_adjust, 0)
                      IN  IF ad.ret.kind # "Ok"
                          THEN [T |-> ad.T, ret |-> ad.ret, note |-> note]
                          ELSE [T |-> ad.T, ret |-> Ok(nf.ret.val), note |-> note]

\* mutant: the corners are planned (writing vertex anchors) before Phase 2
\* has had its chance to fail
add_face_plan_first(T, verts) ==
    LET p1 == Validate(T, verts, 0, <<>>)
    IN  IF p1.ret.kind # "Ok" THEN [T |-> T, ret |-> p1.ret, note |-> NoNote]
        ELSE LET P == PlanCorners(
                        [T |-> T,
                         tentative |-> Tentative(T, verts, p1.loop_halfedges, 0,
                                                 Len(T.edges)),
                         next_cache |-> <<>>,
                         needs_adjust |-> [k \in 1 .. Len(verts) |-> FALSE]],
                        verts, 0)
                 p2 == PlanRelinks(T, verts, p1.loop_halfedges, 0, <<>>)
             IN  IF p2.ret.kind # "Ok"
                 THEN [T |-> P.T, ret |-> p2.ret, note |-> NoNote]
                 ELSE Commit(T, verts, p1.loop_halfedges, p2.next_cache)

\* Topology::add_face(verts, cache): the store it leaves and what it returns
add_face(T, verts) ==
    LET p1 == Validate(T, verts, 0, <<>>)
    IN  IF p1.ret.kind # "Ok" THEN [T |-> T, ret |-> p1.ret, note |-> NoNote]
        ELSE LET p2 == PlanRelinks(T, verts, p1.loop_halfedges, 0, <<>>)
             IN  IF p2.ret.kind # "Ok" THEN [T |-> T, ret |-> p2.ret, note |-> NoNote]
                 ELSE Commit(T, verts, p1.loop_halfedges, p2.next_cache)

\* struct TopolCache, the scratch buffers the caller passes to add_face
TopolCache(lh, na, nc, tent, hs) ==
    [loop_halfedges |-> lh, needs_adjust |-> na, next_cache |-> nc,
     tentative |-> tent, halfedges |-> hs]

\* TopolCache::default()
FreshCache == TopolCache(<<>>, <<>>, <<>>, <<>>, <<>>)

\* mutant: the queued rewrites are not cleared
cache_clear_keeps_rewrites(c) == TopolCache(<<>>, <<>>, c.next_cache, <<>>, <<>>)

\* TopolCache::clear
cache_clear(c) == TopolCache(<<>>, <<>>, <<>>, <<>>, <<>>)

\* the buffers as a successful commit leaves them: the corner records, the
\* loop's halfedges, the flags, and next_cache drained (lines 320-470)
CommitLeaves(T, verts, lh, next_cache) ==
    LET P == PlanCorners([T |-> T,
                          tentative |-> Tentative(T, verts, lh, 0, Len(T.edges)),
                          next_cache |-> next_cache,
                          needs_adjust |-> [k \in 1 .. Len(verts) |-> FALSE]],
                         verts, 0)
    IN  TopolCache(lh, P.needs_adjust, <<>>, P.tentative,
                   [k \in 1 .. Len(P.tentative) |-> P.tentative[k].index])

\* Phase 1 pushes one lookup and one flag per corner it passes (lines 265-278)
WithLookups(c, lh) ==
    [c EXCEPT !.loop_halfedges = lh,
              !.needs_adjust = [k \in 1 .. Len(lh) |-> FALSE]]

\* the call's result together with the buffers as the commit leaves them
WithCache(r, cache) ==
    [T |-> r.T, ret |-> r.ret, note |-> r.note, cache |-> cache]

\* from the end of Phase 2 (lines 280-317): a corner that cannot be relinked
\* returns with the rewrites queued so far still in next_cache
AfterRelinks(T, verts, c1, p2) ==
    IF p2.ret.kind # "Ok"
    THEN [T |-> T, ret |-> p2.ret, note |-> NoNote,
          cache |-> [c1 EXCEPT !.next_cache = p2.next_cache]]
    ELSE WithCache(Commit(T, verts, c1.loop_halfedges, p2.next_cache),
                   CommitLeaves(T, verts, c1.loop_halfedges, p2.next_cache))

\* from the end of Phase 1 (lines 265-278), c being the cleared cache
AfterValidate(T, verts, c, p1) ==
    IF p1.ret.kind # "Ok"
    THEN [T |-> T, ret |-> p1.ret, note |-> NoNote,
          cache |-> WithLookups(c, p1.loop_halfedges)]
    ELSE AfterRelinks(T, verts, WithLookups(c, p1.loop_halfedges),
                      PlanRelinks(T, verts, p1.loop_halfedges, 0, c.next_cache))

\* the body of add_face on the cache as line 260 leaves it
add_face_cleared(T, verts, c) ==
    AfterValidate(T, verts, c, Validate(T, verts, 0, c.loop_halfedges))

\* Topology::add_face(verts, cache) with the cache the caller passes: line 260
\* clears it, Phase 1 pushes one lookup and one flag per corner it passes,
\* Phase 2 extends next_cache, and the buffers stay as the call leaves them.
\* After the clear tentative, halfedges and needs_adjust are empty, which is
\* what Commit starts from.
add_face_cache(T, verts, cache) == add_face_cleared(T, verts, cache_clear(cache))

\* ------------------------------------------------------- state machine
Self == Topology(vertices, edges, faces, vprops, fprops, heap)

\* all loops of n distinct vertices out of 0 .. nv-1, n in lens
LoopsOver(nv, lens) ==
    UNION { { s \in [1 .. n -> 0 .. (nv - 1)] :
                \A a, b \in 1 .. n : a # b => s[a] # s[b] } : n \in lens }

InRange(verts, nv) == \A k \in 1 .. Len(verts) : verts[k] < nv

IsPrefix(a, b) == Len(a) <= Len(b) /\ \A k \in 1 .. Len(a) : a[k] = b[k]

\* Isolated vertices are interchangeable (add_face reads a vertex index only
\* to index the arrays), so a loop takes the isolated vertices it uses in
\* increasing order, lowest first: one representative of every relabelling.
Isolated(T) == { v \in vertex_iter(T) : vertex_halfedge(T, v) = NONE }
FreshInOrder(T, verts) ==
    LET iso == Isolated(T)
        fresh == SelectSeq(verts, LAMBDA v : v \in iso)
    IN  \A k \in 1 .. Len(fresh) : Cardinality({ u \in iso : u < fresh[k] }) = k - 1

\* Small stores are explored with every triangle.
TriLoops == LoopsOver(MaxVerts, {3})

\* A larger store is built by one fixed opening, three triangles that meet
\* only in vertex 0 (three boundary loops through one vertex), and is then
\* explored with every triangle and every quad through vertex 0
\* (Mesh::add_tri_face, Mesh::add_quad_face).
FanScript == << <<0, 1, 2>>, <<0, 3, 4>>, <<0, 5, 6>> >>
FanVerts == Len(FanScript) * 2 + 1
FanLoops ==
    { s \in LoopsOver(FanVerts, {3, 4}) : \E k \in 1 .. Len(s) : s[k] = 0 }

\* the loops the client may pass to add_face in the current state
LoopInputs ==
    (IF Len(vertices) <= MaxVerts /\ Len(faces) < MaxFaces
     THEN { verts \in TriLoops : /\ InRange(verts, Len(vertices))
                                 /\ FreshInOrder(Self, verts) }
     ELSE {})
    \cup
    (IF /\ Len(faces) < Len(FanScript)
        /\ IsPrefix(floops, FanScript)
        /\ InRange(FanScript[Len(faces) + 1], Len(vertices))
     THEN {FanScript[Len(faces) + 1]}
     ELSE {})
    \cup
    (IF IsPrefix(FanScript, floops) /\ Len(faces) < Len(FanScript) + FanExtra
     THEN FanLoops
     ELSE {})

\* last: the most recent call, its argument and what it returned
Call(op, arg, ret, note) == [op |-> op, arg |-> arg, ret |-> ret, note |-> note]

Init ==
    /\ vertices = <<>>
    /\ edges = <<>>
    /\ faces = <<>>
    /\ vprops = <<>>
    /\ fprops = <<>>
    /\ heap = <<>>
    /\ floops = <<>>
    /\ last = Call("new", <<>>, Ok(0), NoNote)

Install(T) ==
    /\ vertices' = T.vertices
    /\ edges' = T.edges
    /\ faces' = T.faces
    /\ vprops' = T.vprops
    /\ fprops' = T.fprops
    /\ heap' = T.heap

\* no call is in progress and the last result has been taken
Idle == last.op \in {"new", "idle"}

AddVertex ==
    /\ Idle
    /\ \/ Len(vertices) < MaxVerts
       \/ IsPrefix(floops, FanScript) /\ Len(vertices) < FanVerts
    /\ LET r == add_vertex(Self)
       IN  /\ Install(r.T)
           /\ last' = Call("add_vertex", <<>>, r.ret, NoNote)
    /\ UNCHANGED floops

AddFace ==
    /\ Idle
    /\ \E verts \in LoopInputs :
         LET r == add_face(Self, verts)
         IN  /\ Install(r.T)
             /\ last' = Call("add_face", verts, r.ret, r.note)
             /\ floops' = IF r.ret.kind = "Ok" THEN Append(floops, verts) ELSE floops

\* the caller takes the returned Result; the store is not touched
Return ==
    /\ ~Idle
    /\ last' = Call("idle", <<>>, Ok(0), NoNote)
    /\ UNCHANGED <<vertices, edges, faces, vprops, fprops, heap, floops>>

Next == AddVertex \/ AddFace \/ Return

Spec == Init /\ [][Next]_vars

\* the same client, also creating and dropping vertex properties; at most one
\* face is inserted (add_face never touches the vertex property container)
CreateVertexProp ==
    /\ Idle
    /\ Len(heap) < MaxProps
    /\ Install(property_new(Self))
    /\ last' = Call("create_vertex_prop", <<>>, Ok(Len(heap)), NoNote)
    /\ UNCHANGED floops

\* the client drops its Property handle: the Rc is freed, the weak reference
\* in the container stays behind
DropProp ==
    /\ Idle
    /\ \E p \in 0 .. (Len(heap) - 1) :
         /\ At(heap, p).alive
         /\ heap' = SetAt(heap, p, [alive |-> FALSE, data |-> <<>>])
         /\ last' = Call("drop", <<p>>, Ok(0), NoNote)
    /\ UNCHANGED <<vertices, edges, faces, vprops, fprops, floops>>

AddVertexP == Len(vertices) < MaxVerts /\ AddVertex

AddFaceP == faces = <<>> /\ Len(vertices) <= MaxVerts /\ AddFace

NextProps == AddVertexP \/ AddFaceP \/ CreateVertexProp \/ DropProp \/ Return

SpecProps == Init /\ [][NextProps]_vars

\* The same client, keeping of a refused add_face only the error it got and
\* not the loop it passed: the store it leaves and the value returned are as
\* in AddFace.  The claims about the store alone (its shape, the queries and
\* the circulators) are stated against SpecStore.
AddFaceStore ==
    /\ Idle
    /\ \E verts \in LoopInputs :
         LET r == add_face(Self, verts)
         IN  /\ Install(r.T)
             /\ last' = IF r.ret.kind = "Ok"
                        THEN Call("add_face", verts, r.ret, r.note)
                        ELSE Call("add_face", <<>>, r.ret, NoNote)
             /\ floops' = IF r.ret.kind = "Ok" THEN Append(floops, verts) ELSE floops

NextStore == AddVertex \/ AddFaceStore \/ Return

SpecStore == Init /\ [][NextStore]_vars

\* A client that also reads and writes its vertex properties by index.  At
\* most MaxSlots vertices and one face are added; the values written are the
\* default and one other, through the first handle obtained; every handle is
\* read.  A panic ends the program: nothing follows it.
PropValues == {DefaultValue, DefaultValue + 1}

AddVertexA == Len(vertices) < MaxSlots /\ AddVertex

GetProp ==
    /\ Idle
    /\ \E p \in 0 .. (Len(heap) - 1) : \E i \in 0 .. Len(vertices) :
         /\ At(heap, p).alive
         /\ last' = Call("get", <<p, i>>, property_get(heap, p, i), NoNote)
    /\ UNCHANGED <<vertices, edges, faces, vprops, fprops, heap, floops>>

\* the client writes through the first handle it obtained
SetProp ==
    /\ Idle
    /\ heap # <<>>
    /\ At(heap, 0).alive
    /\ \E i \in 0 .. Len(vertices) : \E val \in PropValues :
         LET r == property_set(heap, 0, i, val)
         IN  /\ heap' = r.heap
             /\ last' = Call("set", <<0, i, val>>, r.ret, NoNote)
    /\ UNCHANGED <<vertices, edges, faces, vprops, fprops, floops>>

ReturnA == last.ret.kind # "Panic" /\ Return

NextAccess ==
    \/ AddVertexA \/ AddFaceP \/ CreateVertexProp \/ DropProp
    \/ GetProp \/ SetProp \/ ReturnA

SpecAccess == Init /\ [][NextAccess]_vars

\* A store in which two vertices of one loop lie on several boundary loops
\* each: a fixed opening of three triangles and a quad (vertex 0 ends up on
\* three boundary loops, vertex 2 on two), then free calls with every
\* triangle over its vertices.
PatchScript == << <<0, 1, 4>>, <<0, 5, 6>>, <<2, 3, 4>>, <<1, 2, 0, 3>> >>
PatchVerts ==
    LET used == UNION { { PatchScript[k][j] : j \in 1 .. Len(PatchScript[k]) } :
                          k \in 1 .. Len(PatchScript) }
    IN  1 + CHOOSE m \in used : \A u \in used : u <= m
PatchLoops == LoopsOver(PatchVerts, {3})

AddVertexS == Len(vertices) < PatchVerts /\ faces = <<>> /\ AddVertex

AddFaceS ==
    /\ Idle
    /\ Len(vertices) = PatchVerts
    /\ \E verts \in (IF Len(faces) < Len(PatchScript)
                     THEN {PatchScript[Len(faces) + 1]}
                     ELSE IF Len(faces) < Len(PatchScript) + PatchExtra
                     THEN PatchLoops
                     ELSE {}) :
         LET r == add_face(Self, verts)
         IN  /\ Install(r.T)
             /\ last' = Call("add_face", verts, r.ret, r.note)
             /\ floops' = IF r.ret.kind = "Ok" THEN Append(floops, verts) ELSE floops

NextPatch == AddVertexS \/ AddFaceS \/ Return

SpecPatch == Init /\ [][NextPatch]_vars

\* The same opening, by a client that passes add_face a cache another call
\* has used: a fresh one, or the one left by the call of a donor loop on a
\* store like the current one (a call that succeeded, that failed in Phase 1,
\* or that failed in Phase 2 with rewrites queued).  The note of the call
\* records the cache it was entered with.
CacheDonors == { PatchScript[k] : k \in 1 .. Len(PatchScript) }
                   \cup { <<1, 0, 2>>, <<3, 6, 5>> }
CacheInputs ==
    {FreshCache} \cup { add_face_cache(Self, d, FreshCache).cache : d \in CacheDonors }

\* the store, the result and the cache the call was entered with
CacheStep(verts, cache, r) ==
    /\ Install(r.T)
    /\ last' = Call("add_face", verts, r.ret,
                    [relinks |-> r.note.relinks,
                     adjusted |-> r.note.adjusted,
                     entry |-> cache])
    /\ floops' = IF r.ret.kind = "Ok" THEN Append(floops, verts) ELSE floops

AddFaceC ==
    /\ Idle
    /\ Len(vertices) = PatchVerts
    /\ \E verts \in (IF Len(faces) < Len(PatchScript)
                     THEN {PatchScript[Len(faces) + 1]}
                     ELSE IF Len(faces) < Len(PatchScript) + PatchExtra
                     THEN PatchLoops
                     ELSE {}) :
         \E cache \in CacheInputs :
            CacheStep(verts, cache, add_face_cache(Self, verts, cache))

NextCache == AddVertexS \/ AddFaceC \/ Return

SpecCache == Init /\ [][NextCache]_vars

\* A client that resolves halfedge identifiers through the two accessors.
\* struct Mesh holds the same vertex, edge and face arrays as the store
\* (mesh.rs 9-34) and its add_face is todo!(), so Mesh::halfedge is applied
\* to the edge array the store's add_face builds.
TopologyHalfedge ==
    /\ Idle
    /\ \E h \in halfedge_iter(Self) :
         last' = Call("Topology::halfedge", <<h>>, halfedge_place(Self, h), NoNote)
    /\ UNCHANGED <<vertices, edges, faces, vprops, fprops, heap, floops>>

MeshHalfedge ==
    /\ Idle
    /\ \E h \in halfedge_iter(Self) :
         last' = Call("Mesh::halfedge", <<h>>, mesh_halfedge_place(Self, h), NoNote)
    /\ UNCHANGED <<vertices, edges, faces, vprops, fprops, heap, floops>>

NextLayout ==
    AddVertex \/ AddFaceStore \/ TopologyHalfedge \/ MeshHalfedge \/ ReturnA

SpecLayout == Init /\ [][NextLayout]_vars

\* ----------------------------------------------- geometry wrapper (mesh.rs)
\* glam::Vec3 over a small set of coordinates; Vec3::default() is the zero
\* vector
Coords == {0, 1}
Vec3s == { <<x, y, z>> : x \in Coords, y \in Coords, z \in Coords }
Vec3Zero == <<0, 0, 0>>

\* the heap cell of Mesh::points
MeshPoints == 0

\* Mesh::new: no vertices, edges or faces, an empty points array and one
\* weak reference to it in vprops
mesh_new ==
    Topology(<<>>, <<>>, <<>>, <<MeshPoints>>, <<>>,
             <<[alive |-> TRUE, data |-> <<>>]>>)

\* PropertyRef::push of mesh.rs on slot r
mesh_push(hp, r) == SetAt(hp, r, [At(hp, r) EXCEPT !.data = Append(@, Vec3Zero)])

\* PropertyContainer::push_value of mesh.rs
RECURSIVE mesh_push_value(_, _, _)
mesh_push_value(props, hp, i) ==
    IF i = Len(props) THEN [ret |-> Ok(0), heap |-> hp]
    ELSE IF ~upgrade(hp, At(props, i))
         THEN [ret |-> Err("PropertyDoesNotExist", NONE), heap |-> hp]
         ELSE mesh_push_value(props, mesh_push(hp, At(props, i)), i + 1)

\* Property::set of mesh.rs: `buf[i as usize] = val` under the write lock;
\* the lock is never poisoned here, an index past the end panics
mesh_property_set(hp, p, i, val) ==
    IF i < Len(At(hp, p).data)
    THEN [heap |-> SetAt(hp, p, [At(hp, p) EXCEPT !.data = SetAt(@, i, val)]),
          ret |-> Ok(0)]
    ELSE [heap |-> hp, ret |-> Err("Panic", i)]

\* Mesh::add_vertex: vi is the length of the vertex array, which the call
\* never extends
mesh_add_vertex(T, pos) ==
    LET vi == Len(T.vertices)
        pv == mesh_push_value(T.vprops, T.heap, 0)
    IN  IF pv.ret.kind # "Ok"
        THEN [T |-> [T EXCEPT !.heap = pv.heap], ret |-> pv.ret]
        ELSE LET st == mesh_property_set(pv.heap, MeshPoints, vi, pos)
             IN  [T |-> [T EXCEPT !.heap = st.heap],
                  ret |-> IF st.ret.kind # "Ok" THEN st.ret ELSE Ok(vi)]

InitMesh ==
    /\ vertices = mesh_new.vertices
    /\ edges = mesh_new.edges
    /\ faces = mesh_new.faces
    /\ vprops = mesh_new.vprops
    /\ fprops = mesh_new.fprops
    /\ heap = mesh_new.heap
    /\ floops = <<>>
    /\ last = Call("new", <<>>, Ok(0), NoNote)

MeshStep(pos, r) ==
    /\ Install(r.T)
    /\ last' = Call("Mesh::add_vertex", <<pos>>, r.ret, NoNote)
    /\ UNCHANGED floops

MeshAddVertex ==
    /\ Idle
    /\ Len(At(heap, MeshPoints).data) < MaxPoints
    /\ \E pos \in Vec3s : MeshStep(pos, mesh_add_vertex(Self, pos))

NextMesh == MeshAddVertex \/ ReturnA

SpecMesh == InitMesh /\ [][NextMesh]_vars

\* ============================================================== claims
\* ground truth read off the arrays, without the circulators
Outgoing(T, v) == { h \in halfedge_iter(T) : from_vertex(T, h) = v }
Finite(walk) == \A k \in 1 .. Len(walk) : walk[k] # DIVERGED
Range(seq) == { seq[k] : k \in 1 .. Len(seq) }

\* a step in which add_face is called and returns
AddFaceReturns == Idle /\ last'.op = "add_face"
TopologyErrors == {"ComplexVertex", "ComplexEdge", "PatchRelinkingFailed"}

\* C1: when add_face returns ComplexVertex, ComplexEdge or
\* PatchRelinkingFailed, the vertex, edge and face arrays (counts, vertex
\* anchors, every halfedge's vertex, face, next and prev, face anchors) and
\* every property array are what they were before the call.
C1_AtomicOnError ==
    [][ (AddFaceReturns /\ last'.ret.kind \in TopologyErrors)
          => /\ vertices' = vertices
             /\ edges' = edges
             /\ faces' = faces
             /\ vprops' = vprops
             /\ fprops' = fprops
             /\ heap' = heap ]_vars

\* a call failed in Phase 2 on a store that already holds three faces, with a
\* loop that also has corners lacking a halfedge
C1_Witness ==
    /\ last.op = "add_face"
    /\ last.ret.kind = "PatchRelinkingFailed"
    /\ Len(last.arg) = 4
    /\ \E k \in 1 .. 4 :
         find_halfedge(Self, last.arg[k], last.arg[(k % 4) + 1]) = NONE

\* C2: every halfedge h has next(prev(h)) = h and prev(next(h)) = h, after
\* successful and failed calls alike.
C2_LinkConsistency ==
    \A h \in halfedge_iter(Self) :
        /\ next_halfedge(Self, prev_halfedge(Self, h)) = h
        /\ prev_halfedge(Self, next_halfedge(Self, h)) = h

\* a face was inserted between two boundary loops of one vertex, which
\* queued the three relinking rewrites
C2_Witness ==
    /\ last.op = "add_face"
    /\ last.ret.kind = "Ok"
    /\ last.note.relinks > 0

\* C3: from face_halfedge(f), next returns to the anchor, every halfedge on
\* the way carries f, there are as many as the loop that created f has
\* vertices, and every halfedge carrying f is on that cycle.
C3_FaceCycles ==
    \A f \in face_iter(Self) :
        LET cyc == fh_ccw_iter(Self, f)
            on == Range(cyc)
        IN  /\ Finite(cyc)
            /\ \A h \in on : halfedge_face(Self, h) = f
            /\ Len(cyc) = Len(floops[f + 1])
            /\ \A h \in halfedge_iter(Self) : halfedge_face(Self, h) = f => h \in on

\* a quad was glued to the fan of triangles along two existing edges
C3_Witness ==
    /\ Len(faces) = Len(FanScript) + 1
    /\ Len(floops[Len(faces)]) = 4
    /\ Len(edges) = Len(FanScript) * 3 + 2

\* C4: a stored vertex halfedge leaves its vertex; it is a boundary halfedge
\* whenever the vertex has any outgoing boundary halfedge; and every vertex
\* that is the source of a halfedge has one stored.
C4_VertexAnchor ==
    /\ \A v \in vertex_iter(Self) :
         LET a == vertex_halfedge(Self, v)
         IN  a # NONE => a \in halfedge_iter(Self) /\ from_vertex(Self, a) = v
    /\ \A h \in halfedge_iter(Self) :
         LET a == vertex_halfedge(Self, from_vertex(Self, h))
         IN  /\ a # NONE
             /\ is_boundary_halfedge(Self, h) => is_boundary_halfedge(Self, a)

\* the call flagged a vertex whose anchor joined the new face, and the rescan
\* found it another boundary halfedge
C4_Witness ==
    /\ last.op = "add_face"
    /\ last.ret.kind = "Ok"
    /\ \E v \in last.note.adjusted :
         /\ is_boundary_halfedge(Self, vertex_halfedge(Self, v))
         /\ \E h \in Outgoing(Self, v) : halfedge_face(Self, h) = last.ret.val

\* following next from h comes back to hstart within fuel further steps
RECURSIVE NextReturns(_, _, _, _)
NextReturns(T, hstart, h, fuel) ==
    LET n == next_halfedge(T, h)
    IN  n = hstart \/ (fuel > 0 /\ NextReturns(T, hstart, n, fuel - 1))

\* C5: next of a boundary halfedge is a boundary halfedge, and following
\* next from a boundary halfedge returns to it.
C5_BoundaryCycles ==
    \A h \in halfedge_iter(Self) :
        is_boundary_halfedge(Self, h) =>
            /\ is_boundary_halfedge(Self, next_halfedge(Self, h))
            /\ NextReturns(Self, h, h, num_halfedges(Self))

\* after a relinking insertion some vertex still lies on two boundary loops
C5_Witness ==
    /\ last.note.relinks > 0
    /\ \E v \in vertex_iter(Self) :
         Cardinality({ h \in Outgoing(Self, v) : is_boundary_halfedge(Self, h) }) >= 2

\* C6: the vertex a halfedge points to is the vertex its next starts from.
C6_HeadToTail ==
    \A h \in halfedge_iter(Self) :
        to_vertex(Self, h) = from_vertex(Self, next_halfedge(Self, h))

\* a triangle with two old edges and one new edge was inserted into the fan,
\* leaving its centre on two boundary loops
C6_Witness ==
    /\ last.op = "add_face"
    /\ last.ret.kind = "Ok"
    /\ Len(last.arg) = 3
    /\ Len(faces) = Len(FanScript) + 1
    /\ Len(edges) = Len(FanScript) * 3 + 1
    /\ \E v \in vertex_iter(Self) :
         Cardinality({ h \in Outgoing(Self, v) : is_boundary_halfedge(Self, h) }) = 2

\* a slot of the vertex property container is live while its client handle is
LiveVertexProps == { At(vprops, k) : k \in { j \in 0 .. (Len(vprops) - 1) :
                                               upgrade(heap, At(vprops, j)) } }
NeverDropped == \A p \in 0 .. (Len(heap) - 1) : At(heap, p).alive

\* C7: while no handle has been released, every registered vertex property
\* array is as long as the vertex array, whatever the order of add_vertex,
\* add_face and create_vertex_prop, and PropertyContainer::len returns that
\* common length without tripping its assertion.
C7_PropertyLockstep ==
    NeverDropped =>
        /\ \A p \in LiveVertexProps : Len(At(heap, p).data) = Len(vertices)
        /\ container_len(vprops, heap, 0, NONE).kind = "Ok"

\* C8: add_vertex called while a registered vertex property has been released
\* returns the new index, and every live vertex property grows by one.
C8_DeadSlotsSkipped ==
    [][ (Idle /\ last'.op = "add_vertex" /\ ~NeverDropped)
          => /\ last'.ret = Ok(Len(vertices))
             /\ Len(vertices') = Len(vertices) + 1
             /\ \A p \in LiveVertexProps :
                  Len(At(heap', p).data) = Len(At(heap, p).data) + 1 ]_vars

\* v belongs to faces all around: it has a stored halfedge and none of its
\* outgoing halfedges is a boundary halfedge
Interior(T, v) ==
    /\ vertex_halfedge(T, v) # NONE
    /\ \A h \in Outgoing(T, v) : ~is_boundary_halfedge(T, h)

\* C9: add_face does not succeed on a loop that has an interior vertex, and a
\* returned ComplexVertex(v) names a vertex of the loop that has a stored
\* halfedge and no outgoing boundary halfedge.
C9_ComplexVertex ==
    [][ AddFaceReturns =>
          /\ (\E k \in 1 .. Len(last'.arg) : Interior(Self, last'.arg[k]))
                => last'.ret.kind # "Ok"
          /\ last'.ret.kind = "ComplexVertex"
                => /\ last'.ret.val \in Range(last'.arg)
                   /\ Interior(Self, last'.ret.val) ]_vars

\* a loop through a vertex of a closed two-face pillow was refused
C9_Witness ==
    /\ last.op = "add_face"
    /\ last.ret.kind = "ComplexVertex"
    /\ Len(faces) = 2
    /\ Outgoing(Self, last.ret.val) # {}
    /\ \A h \in halfedge_iter(Self) : ~is_boundary_halfedge(Self, h)

\* some halfedge runs from corner k of the loop to the next corner and
\* carries a face
Occupied(T, verts, h) ==
    /\ halfedge_face(T, h) # NONE
    /\ \E k \in 1 .. Len(verts) :
         /\ from_vertex(T, h) = verts[k]
         /\ to_vertex(T, h) = verts[(k % Len(verts)) + 1]

\* C10: add_face does not succeed on a loop one of whose directed edges
\* already exists and carries a face; a returned ComplexEdge(h) names such a
\* halfedge, and the vertex, edge and face counts are what they were.
C10_ComplexEdge ==
    [][ AddFaceReturns =>
          /\ (\E h \in halfedge_iter(Self) : Occupied(Self, last'.arg, h))
                => last'.ret.kind # "Ok"
          /\ last'.ret.kind = "ComplexEdge"
                => /\ last'.ret.val \in halfedge_iter(Self)
                   /\ Occupied(Self, last'.arg, last'.ret.val)
                   /\ Len(vertices') = Len(vertices)
                   /\ Len(edges') = Len(edges)
                   /\ Len(faces') = Len(faces) ]_vars

\* faces [0,1,2] and [0,2,3], then the loop [0,2,1] against the first face
C10_Witness ==
    /\ floops = << <<0, 1, 2>>, <<0, 2, 3>> >>
    /\ last.op = "add_face"
    /\ last.arg = <<0, 2, 1>>
    /\ last.ret.kind = "ComplexEdge"
    /\ Len(faces) = 2

\* a, b are cyclically consecutive, in this order, in the loop
Consecutive(loop, a, b) ==
    \E k \in 1 .. Len(loop) : loop[k] = a /\ loop[(k % Len(loop)) + 1] = b

\* the faces (indices into floops) whose loop runs along the pair {a, b}
FacesAlong(a, b) ==
    { f \in 1 .. Len(floops) :
        Consecutive(floops[f], a, b) \/ Consecutive(floops[f], b, a) }

BoundaryOutgoing(T, v) == { h \in Outgoing(T, v) : is_boundary_halfedge(T, h) }

\* C11 as stated: every edge is incident to at most two faces and no vertex
\* has more than one outgoing boundary halfedge (its faces form one closed
\* fan or one open strip).
C11_Manifold ==
    /\ \A a, b \in vertex_iter(Self) : Cardinality(FacesAlong(a, b)) <= 2
    /\ \A v \in vertex_iter(Self) : Cardinality(BoundaryOutgoing(Self, v)) <= 1

\* C11 amended: every edge is incident to at most two faces, one per side,
\* and the rotation about a vertex is one cycle through all its outgoing
\* halfedges, so its faces form one closed fan or open strips, one strip per
\* outgoing boundary halfedge; there may be several strips.
C11_EdgeManifold ==
    /\ \A f \in 1 .. Len(floops) : \A k \in 1 .. Len(floops[f]) :
         Cardinality(FacesAlong(floops[f][k], floops[f][(k % Len(floops[f])) + 1])) <= 2
    /\ \A e \in edge_iter(Self) :
         halfedge_face(Self, 2 * e) # NONE
            => halfedge_face(Self, 2 * e) # halfedge_face(Self, 2 * e + 1)
    /\ \A h \in halfedge_iter(Self) :
         h \in Range(voh_ccw_iter(Self, from_vertex(Self, h)))

\* the fan of three triangles that meet only in vertex 0: three open strips
C11_Witness ==
    /\ floops = FanScript
    /\ Cardinality(BoundaryOutgoing(Self, 0)) = Len(FanScript)
    /\ Cardinality(FacesAlong(0, 1)) = 1

\* the first item kept, the others in reverse order
KeepFirstReverseRest(seq) ==
    [k \in 1 .. Len(seq) |-> IF k = 1 THEN seq[1] ELSE seq[Len(seq) + 2 - k]]

\* C12: the loop of the call that returned f is what fv_ccw_iter(f) yields,
\* and fv_cw_iter(f) yields its first vertex followed by the others in
\* reverse; this is so for every face in every later state.
C12_FaceVertexOrder ==
    /\ (last.op = "add_face" /\ last.ret.kind = "Ok")
          => /\ last.ret.val + 1 = Len(floops)
             /\ floops[last.ret.val + 1] = last.arg
    /\ \A f \in face_iter(Self) :
         /\ fv_ccw_iter(Self, f) = floops[f + 1]
         /\ fv_cw_iter(Self, f) = KeepFirstReverseRest(floops[f + 1])

\* the first face of the fan is still read back in its order after a quad
\* was glued to two of its vertices
C12_Witness ==
    /\ Len(faces) = Len(FanScript) + 1
    /\ Len(floops[Len(faces)]) = 4
    /\ \E k \in 1 .. 4 : floops[Len(faces)][k] = FanScript[1][2]
    /\ fv_ccw_iter(Self, 0) = FanScript[1]
    /\ fv_cw_iter(Self, Len(faces) - 1) # fv_ccw_iter(Self, Len(faces) - 1)

\* the faces (indices into floops) whose loop goes from a to b
FacesFromTo(a, b) == { f \in 1 .. Len(floops) : Consecutive(floops[f], a, b) }

\* C13: a halfedge carries face f exactly when its (from, to) pair is
\* cyclically consecutive in the loop of the call that returned f, and it is
\* a boundary halfedge exactly when no inserted loop has that ordered pair.
C13_FaceMembership ==
    \A h \in halfedge_iter(Self) :
        LET on == FacesFromTo(from_vertex(Self, h), to_vertex(Self, h))
        IN  IF is_boundary_halfedge(Self, h) THEN on = {}
            ELSE on = {halfedge_face(Self, h) + 1}

\* two triangles sharing one edge: one edge without a boundary halfedge,
\* four with one
C13_Witness ==
    /\ Len(faces) = 2
    /\ Len(edges) = 5
    /\ Cardinality({ e \in edge_iter(Self) : ~is_boundary_edge(Self, e) }) = 1
    /\ Cardinality({ h \in halfedge_iter(Self) : is_boundary_halfedge(Self, h) }) = 4

\* the unordered vertex pairs that are cyclically consecutive in some
\* successfully inserted loop
PairsInLoops ==
    UNION { { {floops[f][k], floops[f][(k % Len(floops[f])) + 1]} :
                k \in 1 .. Len(floops[f]) } : f \in 1 .. Len(floops) }

\* C14: a successful add_vertex / add_face returns the number of successful
\* calls before it and the count grows by one; a call that fails leaves the
\* count alone (so counts equal the numbers of successful calls); num_edges
\* is the number of unordered vertex pairs consecutive in some inserted
\* loop, and num_halfedges is twice num_edges.
C14_CountsAndIds ==
    [][ /\ (Idle /\ last'.op = "add_vertex")
             => IF last'.ret.kind = "Ok"
                THEN /\ last'.ret.val = Len(vertices)
                     /\ Len(vertices') = Len(vertices) + 1
                ELSE Len(vertices') = Len(vertices)
        /\ (Idle /\ last'.op = "add_face")
             => /\ Len(vertices') = Len(vertices)
                /\ IF last'.ret.kind = "Ok"
                   THEN /\ last'.ret.val = Len(faces)
                        /\ Len(faces') = Len(faces) + 1
                   ELSE Len(faces') = Len(faces)
        /\ Len(faces') = Len(floops')
        /\ Len(edges') = Cardinality(PairsInLoops')
        /\ num_halfedges(Self') = 2 * num_edges(Self') ]_vars

\* C15: find_halfedge(a, b) returns a halfedge from a to b whenever the
\* store has one, and nothing only when it has none (an isolated a included).
C15_FindHalfedge ==
    /\ \A a, b \in vertex_iter(Self) :
         LET h == find_halfedge(Self, a, b)
         IN  h # NONE => /\ h \in halfedge_iter(Self)
                         /\ from_vertex(Self, h) = a
                         /\ to_vertex(Self, h) = b
    /\ \A g \in halfedge_iter(Self) :
         find_halfedge(Self, from_vertex(Self, g), to_vertex(Self, g)) # NONE

\* a lookup that had to rotate past the anchor, next to an isolated vertex
C15_Witness ==
    /\ \E a, b \in vertex_iter(Self) :
         /\ find_halfedge(Self, a, b) # NONE
         /\ find_halfedge(Self, a, b) # vertex_halfedge(Self, a)
    /\ \E a \in Isolated(Self) : find_halfedge(Self, a, 0) = NONE
    /\ Len(faces) = 2

\* the walk is finite, starts at the anchor and lists the set exactly once
ListsOnce(walk, anchor, set) ==
    /\ Finite(walk)
    /\ Range(walk) = set
    /\ Len(walk) = Cardinality(set)
    /\ IF anchor = NONE THEN walk = <<>> ELSE walk[1] = anchor

\* C16: voh_ccw_iter(v) and voh_cw_iter(v) terminate and yield every halfedge
\* leaving v exactly once, the stored halfedge of v first; for an isolated
\* vertex they yield nothing.
C16_VertexCirculators ==
    \A v \in vertex_iter(Self) :
        LET out == Outgoing(Self, v)
            anchor == vertex_halfedge(Self, v)
        IN  /\ ListsOnce(voh_ccw_iter(Self, v), anchor, out)
            /\ ListsOnce(voh_cw_iter(Self, v), anchor, out)

\* the centre of the fan after one more face through it: at least six
\* outgoing halfedges, walked in two different orders
C16_Witness ==
    /\ Len(faces) = Len(FanScript) + 1
    /\ Len(voh_ccw_iter(Self, 0)) >= 2 * Len(FanScript)
    /\ voh_ccw_iter(Self, 0) # voh_cw_iter(Self, 0)
    /\ Cardinality(BoundaryOutgoing(Self, 0)) < Len(FanScript)

\* the faces, as returned by add_face, of the loops that go from v to each
\* w of the sequence in turn, none for a w no loop goes to
RECURSIVE FacesToward(_, _, _)
FacesToward(v, ring, k) ==
    IF k > Len(ring) THEN <<>>
    ELSE LET on == FacesFromTo(v, ring[k])
         IN  (IF on = {} THEN <<>> ELSE <<(CHOOSE f \in on : TRUE) - 1>>)
             \o FacesToward(v, ring, k + 1)

\* C17: for w followed (cyclically) by u in vv_ccw_iter(v), a loop that goes
\* from v to w comes to v from u; vf_ccw_iter(v) lists the faces of the
\* halfedges v -> w in the order of vv_ccw_iter(v), absent faces left out.
C17_OneRingOrder ==
    \A v \in vertex_iter(Self) :
        LET ring == vv_ccw_iter(Self, v)
        IN  /\ Finite(ring)
            /\ \A k \in 1 .. Len(ring) :
                 \A f \in FacesFromTo(v, ring[k]) :
                    Consecutive(floops[f], ring[(k % Len(ring)) + 1], v)
            /\ vf_ccw_iter(Self, v) = FacesToward(v, ring, 1)

\* the centre of the fan with a fourth face between two of the triangles:
\* four faces around it and more neighbours than faces
C17_Witness ==
    /\ last.op = "add_face"
    /\ last.ret.kind = "Ok"
    /\ last.note.relinks > 0
    /\ Len(vf_ccw_iter(Self, 0)) = Len(FanScript) + 1
    /\ Len(vv_ccw_iter(Self, 0)) > Len(FanScript) + 1

\* C18: voh_cw_iter(v) and vv_cw_iter(v) are the CCW sequences with the
\* first item kept and the others reversed, and so is fh_cw_iter(f) against
\* fh_ccw_iter(f).
C18_CwReversesCcw ==
    /\ \A v \in vertex_iter(Self) :
         /\ voh_cw_iter(Self, v) = KeepFirstReverseRest(voh_ccw_iter(Self, v))
         /\ vv_cw_iter(Self, v) = KeepFirstReverseRest(vv_ccw_iter(Self, v))
    /\ \A f \in face_iter(Self) :
         fh_cw_iter(Self, f) = KeepFirstReverseRest(fh_ccw_iter(Self, f))

\* a quad in the fan, and a centre whose two rotations differ
C18_Witness ==
    /\ Len(faces) = Len(FanScript) + 1
    /\ Len(fh_cw_iter(Self, Len(faces) - 1)) = 4
    /\ voh_cw_iter(Self, 0) # voh_ccw_iter(Self, 0)
    /\ vv_cw_iter(Self, 0)[2] = vv_ccw_iter(Self, 0)[Len(vv_ccw_iter(Self, 0))]

\* C19: over every call the three counts do not decrease; an existing
\* halfedge keeps its destination and, once it has one, its face; an
\* existing face keeps its halfedge; next or prev change only on halfedges
\* that were boundary halfedges, a face is gained only by a boundary
\* halfedge running along the loop of the add_face call, and a vertex
\* anchor changes only on a vertex of that loop.
C19_AppendOnly ==
    [][ /\ Len(vertices') >= Len(vertices)
        /\ Len(edges') >= Len(edges)
        /\ Len(faces') >= Len(faces)
        /\ \A f \in face_iter(Self) : face_halfedge(Self', f) = face_halfedge(Self, f)
        /\ \A v \in vertex_iter(Self) :
             vertex_halfedge(Self', v) # vertex_halfedge(Self, v)
                => last'.op = "add_face" /\ v \in Range(last'.arg)
        /\ \A h \in halfedge_iter(Self) :
             /\ to_vertex(Self', h) = to_vertex(Self, h)
             /\ halfedge_face(Self, h) # NONE
                   => halfedge(Self', h) = halfedge(Self, h)
             /\ halfedge_face(Self', h) # halfedge_face(Self, h)
                   => /\ last'.op = "add_face"
                      /\ Consecutive(last'.arg, from_vertex(Self, h), to_vertex(Self, h))
                      /\ halfedge_face(Self', h) = last'.ret.val ]_vars

\* a call that rewrote next of a boundary halfedge outside its loop and
\* moved a vertex anchor
C19_Witness ==
    /\ last.op = "add_face"
    /\ last.ret.kind = "Ok"
    /\ last.note.relinks > 0
    /\ last.note.adjusted # {}
    /\ Len(edges) > Len(FanScript) * 3

\* the tentative edges as phase 3 leaves them, for a call that passed
\* Phases 1 and 2
Planned(T, verts) ==
    LET p1 == Validate(T, verts, 0, <<>>)
        p2 == PlanRelinks(T, verts, p1.loop_halfedges, 0, <<>>)
    IN  PlanCorners([T |-> T,
                     tentative |-> Tentative(T, verts, p1.loop_halfedges, 0, Len(T.edges)),
                     next_cache |-> p2.next_cache,
                     needs_adjust |-> [k \in 1 .. Len(verts) |-> FALSE]],
                    verts, 0).tentative

PassesPlanning(T, verts) ==
    LET p1 == Validate(T, verts, 0, <<>>)
    IN  /\ p1.ret.kind = "Ok"
        /\ PlanRelinks(T, verts, p1.loop_halfedges, 0, <<>>).ret.kind = "Ok"

\* C20: add_face returns Ok or one of ComplexVertex, ComplexEdge,
\* PatchRelinkingFailed, never another error, a panic or a walk without end;
\* when Phases 1 and 2 raise nothing it returns Ok with the new face index,
\* every New corner has its four links filled, and the k-th New corner was
\* planned on the k-th edge index to be allocated.
C20_CommitTotal ==
    [][ AddFaceReturns =>
          /\ last'.ret.kind \in {"Ok"} \cup TopologyErrors
          /\ PassesPlanning(Self, last'.arg) =>
               /\ last'.ret = Ok(Len(faces))
               /\ Len(faces') = Len(faces) + 1
               /\ LET tentative == Planned(Self, last'.arg)
                  IN  \A k \in 1 .. Len(tentative) :
                         ~tentative[k].old =>
                            /\ NONE \notin {tentative[k].prev, tentative[k].next,
                                            tentative[k].opp_prev, tentative[k].opp_next}
                            /\ tentative[k].index =
                                 2 * (Len(edges) + Cardinality({ j \in 1 .. (k - 1) :
                                                                   ~tentative[j].old })) ]_vars

\* a quad with two old and two new edges went through after Phase 2 had
\* queued a relink at the centre of the fan
C20_Witness ==
    /\ last.op = "add_face"
    /\ last.ret.kind = "Ok"
    /\ Len(last.arg) = 4
    /\ last.note.relinks > 0
    /\ Len(edges) = Len(FanScript) * 3 + 2

\* C21: for a property of length len, get(i) and set(i, v) with i >= len
\* both return the OutOfBounds error as a value and leave the array as it
\* was; with i < len, set(i, v) followed by get(i) returns v and no other
\* slot changes.
C21_PropertyBounds ==
    [][ /\ (Idle /\ last'.op = "get")
             => /\ heap' = heap
                /\ last'.arg[2] >= Len(At(heap, last'.arg[1]).data)
                      => last'.ret = Err("OutOfBoundsAccess", NONE)
        /\ (Idle /\ last'.op = "set")
             => LET p == last'.arg[1]
                    i == last'.arg[2]
                    v == last'.arg[3]
                IN  IF i >= Len(At(heap, p).data)
                    THEN /\ last'.ret = Err("OutOfBoundsAccess", NONE)
                         /\ heap' = heap
                    ELSE /\ last'.ret.kind = "Ok"
                         /\ property_get(heap', p, i) = Ok(v)
                         /\ Len(heap') = Len(heap)
                         /\ \A q \in 0 .. (Len(heap) - 1) :
                              /\ At(heap', q).alive = At(heap, q).alive
                              /\ Len(At(heap', q).data) = Len(At(heap, q).data)
                              /\ \A j \in 0 .. (Len(At(heap, q).data) - 1) :
                                   (q # p \/ j # i)
                                      => At(At(heap', q).data, j) = At(At(heap, q).data, j)
      ]_vars

\* C22: a successful add_vertex returns the previous vertex count; the new
\* vertex has no stored halfedge, is a boundary vertex and all its
\* circulators are empty; every live vertex property gains one slot holding
\* the default value; no edge, face, link, vertex anchor or property value
\* of an element that existed before changes.
C22_AddVertexFrame ==
    [][ (Idle /\ last'.op = "add_vertex" /\ last'.ret.kind = "Ok")
          => LET v == Len(vertices)
             IN  /\ last'.ret.val = v
                 /\ Len(vertices') = v + 1
                 /\ vertex_halfedge(Self', v) = NONE
                 /\ is_boundary_vertex(Self', v)
                 /\ voh_ccw_iter(Self', v) = <<>>
                 /\ voh_cw_iter(Self', v) = <<>>
                 /\ vv_ccw_iter(Self', v) = <<>>
                 /\ vv_cw_iter(Self', v) = <<>>
                 /\ vf_ccw_iter(Self', v) = <<>>
                 /\ vf_cw_iter(Self', v) = <<>>
                 /\ edges' = edges
                 /\ faces' = faces
                 /\ vprops' = vprops
                 /\ fprops' = fprops
                 /\ \A u \in vertex_iter(Self) : At(vertices', u) = At(vertices, u)
                 /\ Len(heap') = Len(heap)
                 /\ \A p \in 0 .. (Len(heap) - 1) :
                      IF p \in LiveVertexProps
                      THEN At(heap', p) =
                             [At(heap, p) EXCEPT !.data = Append(@, DefaultValue)]
                      ELSE At(heap', p) = At(heap, p) ]_vars

\* a vertex was added to a store that holds a face and a live property with
\* a written value
C22_Witness ==
    /\ last.op = "add_vertex"
    /\ last.ret.kind = "Ok"
    /\ faces # <<>>
    /\ \E p \in LiveVertexProps :
         /\ Len(At(heap, p).data) = Len(vertices)
         /\ At(At(heap, p).data, 0) # DefaultValue
         /\ At(At(heap, p).data, Len(vertices) - 1) = DefaultValue

\* C23: is_boundary_vertex(v) holds exactly when no halfedge leaves v or some
\* halfedge leaving v is a boundary halfedge, although only the stored
\* halfedge of v is looked at.
C23_BoundaryVertex ==
    \A v \in vertex_iter(Self) :
        is_boundary_vertex(Self, v)
            <=> (Outgoing(Self, v) = {} \/ BoundaryOutgoing(Self, v) # {})

\* a closed fan around one vertex, whose neighbours each have a halfedge on
\* the fan and a boundary halfedge, after a call that moved an anchor
C23_Witness ==
    /\ last.op = "add_face"
    /\ last.ret.kind = "Ok"
    /\ last.note.adjusted # {}
    /\ \E v \in vertex_iter(Self) : ~is_boundary_vertex(Self, v)
    /\ \E v \in vertex_iter(Self) :
         /\ is_boundary_vertex(Self, v)
         /\ BoundaryOutgoing(Self, v) # Outgoing(Self, v)
         /\ v \in last.note.adjusted

\* the halfedge along corner i of the loop (0-based, cyclic), if any
LoopHalfedge(T, verts, i) ==
    find_halfedge(T, At(verts, i % Len(verts)), At(verts, (i + 1) % Len(verts)))

\* the corners i whose halfedges h_i and h_(i+1) both exist and are not linked
Unlinked(T, verts) ==
    { i \in 0 .. (Len(verts) - 1) :
        LET a == LoopHalfedge(T, verts, i)
            b == LoopHalfedge(T, verts, i + 1)
        IN  a # NONE /\ b # NONE /\ next_halfedge(T, a) # b }

\* the walk out <- opposite(next(out)) from opposite(h_(i+1)) stops at h_i
WalkStopsAtPrev(T, verts, i) ==
    BoundPrev(T, opposite_halfedge(LoopHalfedge(T, verts, i + 1)), num_halfedges(T))
        = LoopHalfedge(T, verts, i)

\* the three rewrites of corner i
Rewrites(T, verts, i) ==
    LET a == LoopHalfedge(T, verts, i)
        b == LoopHalfedge(T, verts, i + 1)
        bp == BoundPrev(T, opposite_halfedge(b), num_halfedges(T))
    IN  << <<bp, next_halfedge(T, a)>>,
           <<prev_halfedge(T, b), next_halfedge(T, bp)>>,
           <<a, b>> >>

RECURSIVE RewritesFrom(_, _, _)
RewritesFrom(T, verts, i) ==
    IF i = Len(verts) THEN <<>>
    ELSE (IF i \in Unlinked(T, verts) THEN Rewrites(T, verts, i) ELSE <<>>)
         \o RewritesFrom(T, verts, i + 1)

\* the rewrites Phase 2 queues for the loop, read off the call
QueuedRelinks(T, verts) ==
    PlanRelinks(T, verts, Validate(T, verts, 0, <<>>).loop_halfedges, 0, <<>>).next_cache

\* what a successful call leaves of the corners that were not linked
Relinked(verts, un) ==
    /\ last'.note.relinks = Cardinality(un)
    /\ QueuedRelinks(Self, verts) = RewritesFrom(Self, verts, 0)
    /\ \A i \in un :
         LET a == LoopHalfedge(Self, verts, i)
             b == LoopHalfedge(Self, verts, i + 1)
         IN  /\ next_halfedge(Self', a) = b
             /\ halfedge_face(Self', a) = last'.ret.val
             /\ halfedge_face(Self', b) = last'.ret.val

\* C24 as stated: add_face returns PatchRelinkingFailed exactly when Phase 1
\* raises nothing and, at the first corner whose two halfedges exist and are
\* not linked, the walk from opposite(h_(i+1)) stops at h_i; otherwise the
\* three rewrites are queued and after a successful call next(h_i) = h_(i+1)
\* with both halfedges on the new face.
C24_FirstCornerDecides ==
    [][ AddFaceReturns =>
          LET verts == last'.arg
              un == Unlinked(Self, verts)
              first == CHOOSE i \in un : \A j \in un : i <= j
          IN  /\ last'.ret.kind = "PatchRelinkingFailed"
                   <=> /\ Validate(Self, verts, 0, <<>>).ret.kind = "Ok"
                       /\ un # {}
                       /\ WalkStopsAtPrev(Self, verts, first)
              /\ last'.ret.kind = "Ok" => Relinked(verts, un) ]_vars

\* C24 amended: add_face returns PatchRelinkingFailed exactly when Phase 1
\* raises nothing and, at some corner whose two halfedges exist and are not
\* linked, the walk from opposite(h_(i+1)) stops at h_i; otherwise the three
\* rewrites of every such corner are queued and after a successful call
\* next(h_i) = h_(i+1) with both halfedges on the new face.
C24_SomeCornerDecides ==
    [][ AddFaceReturns =>
          LET verts == last'.arg
              un == Unlinked(Self, verts)
          IN  /\ last'.ret.kind = "PatchRelinkingFailed"
                   <=> /\ Validate(Self, verts, 0, <<>>).ret.kind = "Ok"
                       /\ \E i \in un : WalkStopsAtPrev(Self, verts, i)
              /\ last'.ret.kind = "Ok" => Relinked(verts, un) ]_vars

\* the loop [1, 0, 2] on the patch opening: the corner at vertex 0 can be
\* relinked, the later corner at vertex 2 cannot, and the call is refused
C24_Witness ==
    /\ floops = PatchScript
    /\ last.op = "add_face"
    /\ last.ret.kind = "PatchRelinkingFailed"
    /\ LET un == Unlinked(Self, last.arg)
           first == CHOOSE i \in un : \A j \in un : i <= j
       IN  /\ Cardinality(un) = 2
           /\ ~WalkStopsAtPrev(Self, last.arg, first)

\* every walk add_face can start on the store T ends: the rotation about a
\* vertex that find_halfedge and the anchor rescan run over, and the Phase 2
\* walk from the opposite of any boundary halfedge
WalksEnd(T) ==
    /\ \A v \in vertex_iter(T) : Finite(voh_ccw_iter(T, v))
    /\ \A h \in halfedge_iter(T) :
         is_boundary_halfedge(T, h)
            => BoundPrev(T, opposite_halfedge(h), num_halfedges(T)) \in halfedge_iter(T)

\* C25: in every reachable state add_face runs to completion on every loop:
\* the find_halfedge scans end, the Phase 2 walk out <- opposite(next(out))
\* reaches a boundary halfedge, and the final anchor rescan ends.
C25_AddFaceTerminates ==
    [][ /\ WalksEnd(Self')
        /\ AddFaceReturns => last'.ret.kind \notin {"Hang", "Panic"} ]_vars

\* a call that ran the Phase 2 walk past a face before it met a boundary
\* halfedge, and rescanned an anchor
C25_Witness ==
    /\ last.op = "add_face"
    /\ last.ret.kind = "Ok"
    /\ last.note.relinks > 0
    /\ last.note.adjusted # {}
    /\ Len(last.arg) = 4

\* C26: when add_face succeeds with E edges on entry and the corners lacking
\* a halfedge are i_0 < ... < i_(k-1), exactly k edges are created, with
\* indices E .. E+k-1 in that order; halfedge 2(E+j) goes from v_(i_j) to the
\* next loop vertex and carries the new face, and 2(E+j)+1 goes the other
\* way and is a boundary halfedge right after the call.
C26_NewEdgeAllocation ==
    [][ (AddFaceReturns /\ last'.ret.kind = "Ok")
          => LET verts == last'.arg
                 n == Len(verts)
                 E == Len(edges)
                 lacking == { i \in 0 .. (n - 1) : LoopHalfedge(Self, verts, i) = NONE }
             IN  /\ Len(edges') = E + Cardinality(lacking)
                 /\ \A e \in edge_iter(Self) : At(edges', e).halfedges[2].vertex
                                                = At(edges, e).halfedges[2].vertex
                 /\ \A i \in lacking :
                      LET j == Cardinality({ l \in lacking : l < i })
                          h == 2 * (E + j)
                      IN  /\ from_vertex(Self', h) = At(verts, i)
                          /\ to_vertex(Self', h) = At(verts, (i + 1) % n)
                          /\ halfedge_face(Self', h) = last'.ret.val
                          /\ from_vertex(Self', h + 1) = At(verts, (i + 1) % n)
                          /\ to_vertex(Self', h + 1) = At(verts, i)
                          /\ is_boundary_halfedge(Self', h + 1) ]_vars

\* a quad on the fan whose second and third corners have a halfedge and
\* whose first and fourth get the two new edges, in this order
C26_Witness ==
    /\ last.op = "add_face"
    /\ last.ret.kind = "Ok"
    /\ Len(last.arg) = 4
    /\ Len(edges) = Len(FanScript) * 3 + 2
    /\ from_vertex(Self, 2 * Len(edges) - 4) = last.arg[1]
    /\ from_vertex(Self, 2 * Len(edges) - 2) = last.arg[4]
    /\ is_boundary_halfedge(Self, 2 * Len(edges) - 1)

\* C27: Topology::halfedge and Mesh::halfedge both resolve an identifier h
\* in 0 .. 2*num_edges - 1 to side (h & 1) of edge (h >> 1), in range, so h
\* and h XOR 1 are the two halfedges of one stored edge.
C27_HalfedgeLayout ==
    [][ /\ (Idle /\ last'.op = "Topology::halfedge")
             => LET h == last'.arg[1]
                IN  /\ last'.ret = Ok(<<h \div 2, h % 2>>)
                    /\ halfedge_place(Self, opposite_halfedge(h)).val[1] = last'.ret.val[1]
        /\ (Idle /\ last'.op = "Mesh::halfedge")
             => LET h == last'.arg[1]
                IN  /\ last'.ret = Ok(<<h \div 2, h % 2>>)
                    /\ mesh_halfedge_place(Self, opposite_halfedge(h)).val[1]
                         = last'.ret.val[1] ]_vars

\* the store as Phases 1-3 leave it, for a call that passed Phases 1 and 2
StoreAfterPlanning(T, verts) ==
    LET p1 == Validate(T, verts, 0, <<>>)
        p2 == PlanRelinks(T, verts, p1.loop_halfedges, 0, <<>>)
    IN  PlanCorners([T |-> T,
                     tentative |-> Tentative(T, verts, p1.loop_halfedges, 0, Len(T.edges)),
                     next_cache |-> p2.next_cache,
                     needs_adjust |-> [k \in 1 .. Len(verts) |-> FALSE]],
                    verts, 0).T

\* C28: during a successful add_face no field of the store (vertex anchors,
\* halfedge links and faces, counts) is written in Phases 1-3: the store at
\* the end of Phase 3 is the store on entry.
C28_PlanningPure ==
    [][ (AddFaceReturns /\ last'.ret.kind = "Ok")
          => StoreAfterPlanning(Self, last'.arg) = Self ]_vars

\* C29: for the same store and the same loop add_face returns the same
\* result and leaves the same store whatever the cache held on entry: what a
\* call with any cache does is what the call with a fresh cache does.
C29_CacheIndependence ==
    [][ AddFaceReturns =>
          LET fresh == add_face_cache(Self, last'.arg, FreshCache)
          IN  /\ last'.ret = fresh.ret
              /\ Self' = fresh.T ]_vars

\* a call entered with the cache of a call that had failed in Phase 2 with
\* rewrites queued; it queued rewrites of its own and went through
C29_Witness ==
    /\ last.op = "add_face"
    /\ last.ret.kind = "Ok"
    /\ last.note.relinks > 0
    /\ last.note.entry.next_cache # <<>>
    /\ last.note.entry.tentative = <<>>
    /\ Len(floops) = Len(PatchScript) + 1

\* C30: no free-floating edges. In every reachable state the even halfedge
\* 2e of every edge e carries a face, so no edge has both its halfedges on
\* the boundary, and the opposite of every boundary halfedge carries a face.
C30_NoFreeEdges ==
    /\ \A e \in edge_iter(Self) :
         /\ halfedge_face(Self, 2 * e) # NONE
         /\ ~(/\ is_boundary_halfedge(Self, 2 * e)
              /\ is_boundary_halfedge(Self, 2 * e + 1))
    /\ \A h \in halfedge_iter(Self) :
         is_boundary_halfedge(Self, h)
           => halfedge_face(Self, opposite_halfedge(h)) # NONE

\* a store with an edge that has a boundary side and an edge with a face
\* on both sides
C30_Witness ==
    /\ \E e \in edge_iter(Self) : is_boundary_halfedge(Self, 2 * e + 1)
    /\ \E e \in edge_iter(Self) :
         /\ halfedge_face(Self, 2 * e) # NONE
         /\ halfedge_face(Self, 2 * e + 1) # NONE

\* C31: no duplicate or degenerate halfedges. In every state reached with
\* loops of three or more distinct in-range vertices no halfedge ends at the
\* vertex it starts from, and no two distinct halfedges have the same
\* ordered pair (from_vertex, to_vertex).
C31_NoDuplicateHalfedges ==
    /\ \A h \in halfedge_iter(Self) : to_vertex(Self, h) # from_vertex(Self, h)
    /\ \A h, g \in halfedge_iter(Self) :
         (/\ from_vertex(Self, h) = from_vertex(Self, g)
          /\ to_vertex(Self, h) = to_vertex(Self, g)) => h = g

\* add_face has just succeeded on a loop one of whose sides was an edge of
\* an earlier face, found by the search and used again
C31_Witness ==
    /\ last.op = "add_face"
    /\ last.ret.kind = "Ok"
    /\ \E i \in 0 .. (Len(last.arg) - 1) :
         LET h == find_halfedge(Self, At(last.arg, i),
                                At(last.arg, (i + 1) % Len(last.arg)))
         IN  /\ h # NONE
             /\ halfedge_face(Self, h) = last.ret.val
             /\ halfedge_face(Self, opposite_halfedge(h)) \notin {NONE, last.ret.val}

\* C32: each successful Mesh::add_vertex(pos) returns the number of earlier
\* successful add_vertex calls, grows the vertex array by one, and stores pos
\* in the position property at exactly that index, leaving the position of
\* every earlier vertex as it was.  Every successful call pushes one value
\* onto the position array, whose length on entry therefore counts them.
C32_MeshAddVertex ==
    [][ (last'.op = "Mesh::add_vertex" /\ last'.ret.kind = "Ok")
          => LET earlier == Len(At(heap, MeshPoints).data)
                 vi == last'.ret.val
                 pos == last'.arg[1]
             IN  /\ vi = earlier
                 /\ Len(vertices') = Len(vertices) + 1
                 /\ Len(At(heap', MeshPoints).data) > vi
                 /\ At(At(heap', MeshPoints).data, vi) = pos
                 /\ \A v \in 0 .. (earlier - 1) :
                      At(At(heap', MeshPoints).data, v)
                        = At(At(heap, MeshPoints).data, v) ]_vars

====
